---- MODULE Spec2Model ----
(***************************************************************************)
(* Model of the layout generator of architect_layout.py: grid conversion,  *)
(* room list construction, largest-first sort, shelf packing and coverage. *)
(*                                                                         *)
(* Units.  The source works in floating-point metres and square metres.    *)
(* The model keeps every length as an integer number of millimetres (the   *)
(* resolution of area_to_dims, which rounds to 3 decimals), every room     *)
(* area request as an integer number of tenths of a square metre, and the  *)
(* snap size in centimetres as the source does.  Arithmetic is exact, so   *)
(* round() is round-half-to-even on the exact quotient.                    *)
(***************************************************************************)
EXTENDS Integers, Sequences, FiniteSets, TLC

VARIABLES
    PLOT_WIDTH, PLOT_DEPTH,                       \* site inputs (mm)
    front_setback, rear_setback,
    left_setback, right_setback,                  \* setbacks (mm)
    grid_snap_cm,                                 \* snap size (cm)
    car_w, car_d,                                 \* car porch (mm)
    bedroom_area, bedrooms_count,
    bath_area, lounge_area,                       \* areas (0.1 m^2), count
    pc,                                           \* position in the script
    grid_w, grid_h, left_c, right_c,
    front_c, rear_c, cell_m,                      \* cells, cell size (mm)
    build_w, build_h,                             \* buildable region (cells)
    rooms,                                        \* sorted room list
    next_room,                                    \* index of the loop
    layout,                                       \* dict, insertion ordered
    warnings,                                     \* st.warning calls, in order
    cursor_x, cursor_y, max_row_height,
    coverage                                      \* <<>> or <<built, total>>

inputs == <<PLOT_WIDTH, PLOT_DEPTH, front_setback, rear_setback,
            left_setback, right_setback, grid_snap_cm, car_w, car_d,
            bedroom_area, bedrooms_count, bath_area, lounge_area>>

grid == <<grid_w, grid_h, left_c, right_c, front_c, rear_c, cell_m,
          build_w, build_h>>

packer == <<rooms, next_room, layout, warnings,
            cursor_x, cursor_y, max_row_height>>

vars == <<inputs, pc, grid, packer, coverage>>

----------------------------------------------------------------------------
(* Bounds of the model and the input values explored.                      *)

MaxBedrooms == 3

MaxSetback == 1200

PlotWidths    == {14000, 1400}
PlotDepths    == {24000, 12000}
FrontSetbacks == {4500, 0}
RearSetbacks  == {3000, 21000}
LeftSetbacks  == {2000, 700}
RightSetbacks == {2000, 700}
SnapSizes     == {50, 100}
CarWidths     == {3200, 12000}
CarDepths     == {5500, 18000}
LoungeAreas   == {200, 120}
BedroomAreas  == {120, 60}
BathAreas     == {40, 1}
GridSnapSizes == {10, 25, 50}

----------------------------------------------------------------------------
(* Pure helpers.                                                           *)

Max(a, b) == IF a >= b THEN a ELSE b

\* int() alone: the quotient truncated, round() forgotten.
Truncate(n, d) == n \div d

\* Python round() of the exact quotient n / d (n >= 0, d > 0): nearest
\* integer, ties to the even one.
RoundHalfEven(n, d) ==
    LET q == n \div d
        r == n % d
    IN  IF 2 * r < d THEN q
        ELSE IF 2 * r > d THEN q + 1
        ELSE IF q % 2 = 0 THEN q ELSE q + 1

\* snap_cm / 100.0 metres, in millimetres.
CellSize(snap_cm) == snap_cm * 10

\* int(round(length / cell)) without the floor of one cell.
CellsNoMin(mm, cell) == RoundHalfEven(mm, cell)

\* max(1, int(round(length / cell)))
Cells(mm, cell) == Max(1, RoundHalfEven(mm, cell))

\* to_grid(meters, snap_cm) -> (cells, cell)
to_grid(meters, snap_cm) ==
    <<Cells(meters, CellSize(snap_cm)), CellSize(snap_cm)>>

RootLimit == 12000

\* floor(sqrt(n / d)) for n < d * RootLimit^2: the hundreds first, then
\* the units.
FloorRoot(n, d) ==
    LET c == CHOOSE k \in 0..(RootLimit \div 100) :
                 /\ d * (100 * k) * (100 * k) <= n
                 /\ n < d * (100 * k + 100) * (100 * k + 100)
    IN  CHOOSE m \in (100 * c)..(100 * c + 99) :
            /\ d * m * m <= n
            /\ n < d * (m + 1) * (m + 1)

\* Nearest integer to sqrt(p / d): half of floor(sqrt(4p / d)), rounded up.
RoundSqrt(p, d) == (FloorRoot(4 * p, d) + 1) \div 2

\* default aspect_ratio = 1.3, as the fraction AspectNum / AspectDen
AspectNum == 13
AspectDen == 10

\* area_to_dims(area): w = sqrt(area * ratio), h = area / w = sqrt(area /
\* ratio), both rounded to 3 decimals (millimetres).  area in 0.1 m^2.
area_to_dims(area) ==
    <<RoundSqrt(area * AspectNum * 100000, AspectDen),
      RoundSqrt(area * AspectDen * 100000, AspectNum)>>

Room(name, w_m, h_m) == [name |-> name, w_m |-> w_m, h_m |-> h_m]

BedroomName(i) == "Bedroom " \o ToString(i)

\* rooms list in request order, before the sort
RoomRequests(cw, cd, la, ba, n, bta) ==
    <<Room("Car Porch", cw, cd)>>
    \o <<Room("Lounge", area_to_dims(la)[1], area_to_dims(la)[2])>>
    \o [i \in 1..n |->
          Room(BedroomName(i), area_to_dims(ba)[1], area_to_dims(ba)[2])]
    \o <<Room("Bath", area_to_dims(bta)[1], area_to_dims(bta)[2])>>

\* key=lambda x: x[1]*x[2]
SortKey(r) == r.w_m * r.h_m

\* An unstable insertion: r goes in front of the elements of equal key.
RECURSIVE InsertDescStrict(_, _)
InsertDescStrict(s, r) ==
    IF s = <<>> THEN <<r>>
    ELSE IF SortKey(s[1]) > SortKey(r)
         THEN <<s[1]>> \o InsertDescStrict(Tail(s), r)
         ELSE <<r>> \o s

\* Position at which r enters a list sorted by descending key: behind
\* every element whose key is at least r's (stable).
RECURSIVE InsertDesc(_, _)
InsertDesc(s, r) ==
    IF s = <<>> THEN <<r>>
    ELSE IF SortKey(s[1]) >= SortKey(r)
         THEN <<s[1]>> \o InsertDesc(Tail(s), r)
         ELSE <<r>> \o s

RECURSIVE SortFrom(_, _, _)
SortFrom(rs, i, acc) ==
    IF i > Len(rs) THEN acc
    ELSE SortFrom(rs, i + 1, InsertDesc(acc, rs[i]))

\* The sort left out: rooms stay in request order.
RequestOrder(rs) == rs

\* rooms.sort(key=..., reverse=True): stable, descending
SortRooms(rs) == SortFrom(rs, 1, <<>>)

\* A wrap that returns to column 0 without starting a new shelf.
WrapSameShelf(cx, cy, mrh, w_cells, bw) ==
    IF cx + w_cells > bw THEN <<0, cy, 0>> ELSE <<cx, cy, mrh>>

\* if cursor_x + w_cells > build_w: wrap to a new shelf
Wrap(cx, cy, mrh, w_cells, bw) ==
    IF cx + w_cells > bw THEN <<0, cy + mrh, 0>> ELSE <<cx, cy, mrh>>

\* if cursor_y + h_cells > build_h: the room is dropped
CannotFit(cy, h_cells, bh) == cy + h_cells > bh

RECURSIVE CellSum(_, _)
CellSum(l, i) ==
    IF i > Len(l) THEN 0 ELSE l[i].w * l[i].h + CellSum(l, i + 1)

\* built_area = sum(w*h*cell_m*cell_m ...), in mm^2
BuiltArea(l, cell) == CellSum(l, 1) * cell * cell

----------------------------------------------------------------------------
(* The script.                                                             *)

Unset == <<>>

\* lines 17-32: the values the sidebar widgets start with
SidebarDefaults ==
    /\ PLOT_WIDTH = 14000 /\ PLOT_DEPTH = 24000
    /\ front_setback = 4500 /\ rear_setback = 3000
    /\ left_setback = 2000 /\ right_setback = 2000
    /\ grid_snap_cm = 50
    /\ car_w = 3200 /\ car_d = 5500
    /\ bedroom_area = 120 /\ bedrooms_count = 3
    /\ bath_area = 40 /\ lounge_area = 200

\* The page before "Generate Layout" is clicked: nothing computed yet.
Init ==
    /\ SidebarDefaults
    /\ pc = "form"
    /\ grid_w = 0 /\ grid_h = 0 /\ left_c = 0 /\ right_c = 0
    /\ front_c = 0 /\ rear_c = 0 /\ cell_m = 0
    /\ build_w = 0 /\ build_h = 0
    /\ rooms = <<>> /\ next_room = 1
    /\ layout = <<>> /\ warnings = <<>>
    /\ cursor_x = 0 /\ cursor_y = 0 /\ max_row_height = 0
    /\ coverage = Unset

\* lines 15-39 and 93: the user sets the widgets and clicks the button
SubmitForm(pw, pd, fs, rs, ls, rts, snap, cw, cd, ba, n, bta, la) ==
    /\ pc = "form"
    /\ PLOT_WIDTH' = pw /\ PLOT_DEPTH' = pd
    /\ front_setback' = fs /\ rear_setback' = rs
    /\ left_setback' = ls /\ right_setback' = rts
    /\ grid_snap_cm' = snap
    /\ car_w' = cw /\ car_d' = cd
    /\ bedroom_area' = ba /\ bedrooms_count' = n
    /\ bath_area' = bta /\ lounge_area' = la
    /\ pc' = "start"
    /\ UNCHANGED <<grid, packer, coverage>>

Generate ==
    /\ pc = "form"
    /\ \E pw \in PlotWidths, pd \in PlotDepths,
          fs \in FrontSetbacks, rs \in RearSetbacks,
          ls \in LeftSetbacks, rts \in RightSetbacks,
          snap \in SnapSizes, cw \in CarWidths, cd \in CarDepths,
          ba \in BedroomAreas, n \in 0..MaxBedrooms,
          bta \in BathAreas, la \in LoungeAreas :
        SubmitForm(pw, pd, fs, rs, ls, rts, snap, cw, cd, ba, n, bta, la)

\* lines 94-102
GridConversion ==
    /\ pc = "start"
    /\ grid_w' = to_grid(PLOT_WIDTH, grid_snap_cm)[1]
    /\ cell_m' = to_grid(PLOT_WIDTH, grid_snap_cm)[2]
    /\ grid_h' = to_grid(PLOT_DEPTH, grid_snap_cm)[1]
    /\ left_c' = to_grid(left_setback, grid_snap_cm)[1]
    /\ right_c' = to_grid(right_setback, grid_snap_cm)[1]
    /\ front_c' = to_grid(front_setback, grid_snap_cm)[1]
    /\ rear_c' = to_grid(rear_setback, grid_snap_cm)[1]
    /\ build_w' = grid_w' - left_c' - right_c'
    /\ build_h' = grid_h' - front_c' - rear_c'
    /\ pc' = "check"
    /\ UNCHANGED <<inputs, packer, coverage>>

\* lines 104-106: st.error, st.stop
InfeasibleSite ==
    /\ pc = "check"
    /\ (build_w <= 0 \/ build_h <= 0)
    /\ pc' = "error"
    /\ UNCHANGED <<inputs, grid, packer, coverage>>

\* lines 108-120
BuildRooms ==
    /\ pc = "check"
    /\ ~(build_w <= 0 \/ build_h <= 0)
    /\ rooms' = SortRooms(RoomRequests(car_w, car_d, lounge_area,
                                       bedroom_area, bedrooms_count,
                                       bath_area))
    /\ next_room' = 1
    /\ layout' = <<>>
    /\ cursor_x' = 0 /\ cursor_y' = 0 /\ max_row_height' = 0
    /\ pc' = "pack"
    /\ UNCHANGED <<inputs, grid, warnings, coverage>>

\* layout[name] = (cursor_x, cursor_y, w_cells, h_cells)
Placed(name, x, y, w, h) == [name |-> name, x |-> x, y |-> y, w |-> w, h |-> h]

\* lines 121-133, one iteration that places the room
PlaceRoom ==
    /\ pc = "pack"
    /\ next_room <= Len(rooms)
    /\ LET r == rooms[next_room]
           w_cells == Cells(r.w_m, cell_m)
           h_cells == Cells(r.h_m, cell_m)
           c == Wrap(cursor_x, cursor_y, max_row_height, w_cells, build_w)
       IN  /\ ~CannotFit(c[2], h_cells, build_h)
           /\ layout' = Append(layout, Placed(r.name, c[1], c[2], w_cells, h_cells))
           /\ cursor_x' = c[1] + w_cells
           /\ cursor_y' = c[2]
           /\ max_row_height' = Max(c[3], h_cells)
    /\ next_room' = next_room + 1
    /\ UNCHANGED <<inputs, pc, grid, rooms, warnings, coverage>>

\* The drop written with break instead of continue: the loop ends.
DropRoomBreak ==
    /\ pc = "pack"
    /\ next_room <= Len(rooms)
    /\ LET r == rooms[next_room]
           w_cells == Cells(r.w_m, cell_m)
           h_cells == Cells(r.h_m, cell_m)
           c == Wrap(cursor_x, cursor_y, max_row_height, w_cells, build_w)
       IN  /\ CannotFit(c[2], h_cells, build_h)
           /\ warnings' = Append(warnings, r.name)
           /\ cursor_x' = c[1]
           /\ cursor_y' = c[2]
           /\ max_row_height' = c[3]
    /\ next_room' = Len(rooms) + 1
    /\ UNCHANGED <<inputs, pc, grid, rooms, layout, coverage>>

\* lines 121-130, one iteration that drops the room (st.warning; continue)
DropRoom ==
    /\ pc = "pack"
    /\ next_room <= Len(rooms)
    /\ LET r == rooms[next_room]
           w_cells == Cells(r.w_m, cell_m)
           h_cells == Cells(r.h_m, cell_m)
           c == Wrap(cursor_x, cursor_y, max_row_height, w_cells, build_w)
       IN  /\ CannotFit(c[2], h_cells, build_h)
           /\ warnings' = Append(warnings, r.name)
           /\ cursor_x' = c[1]
           /\ cursor_y' = c[2]
           /\ max_row_height' = c[3]
    /\ next_room' = next_room + 1
    /\ UNCHANGED <<inputs, pc, grid, rooms, layout, coverage>>

\* lines 135-138
Coverage ==
    /\ pc = "pack"
    /\ next_room > Len(rooms)
    /\ coverage' = <<BuiltArea(layout, cell_m), PLOT_WIDTH * PLOT_DEPTH>>
    /\ pc' = "done"
    /\ UNCHANGED <<inputs, grid, packer>>

\* the steps of the script once the button is clicked
Script ==
    \/ GridConversion
    \/ InfeasibleSite
    \/ BuildRooms
    \/ PlaceRoom
    \/ DropRoom
    \/ Coverage

Next == Generate \/ Script

Spec == Init /\ [][Next]_vars

\* lines 121-137: the iterations of the loop and the step that follows it
PackingLoop == PlaceRoom \/ DropRoom \/ Coverage

\* The script is straight-line, single-threaded code: once the loop is
\* entered, every step of it that can run does run.
FairSpec == Spec /\ WF_vars(PackingLoop)

----------------------------------------------------------------------------
(* to_grid on its own: one setback ranges over every length up to          *)
(* MaxSetback millimetres and the snap size over GridSnapSizes, the other  *)
(* inputs are the form's defaults; the only step is the grid conversion.   *)

GridGenerate ==
    /\ pc = "form"
    /\ \E ls \in 0..MaxSetback, snap \in GridSnapSizes :
        SubmitForm(14000, 24000, 4500, 3000, ls, 2000, snap,
                   3200, 5500, 120, 3, 40, 200)

GridNext == GridGenerate \/ GridConversion

GridSpec == Init /\ [][GridNext]_vars

----------------------------------------------------------------------------
(* Properties.                                                             *)

Abs(a) == IF a >= 0 THEN a ELSE -a

Names(s) == {s[i].name : i \in 1..Len(s)}

Range(s) == {s[i] : i \in 1..Len(s)}

\* the index of the room called n in the request list rq
RequestIndex(rq, n) == CHOOSE i \in 1..Len(rq) : rq[i].name = n

WidthCells(r) == Cells(r.w_m, cell_m)

\* half-open cell rectangles with a common cell
Overlap(a, b) ==
    /\ a.x < b.x + b.w /\ b.x < a.x + a.w
    /\ a.y < b.y + b.h /\ b.y < a.y + a.h

\* the lengths the grid conversion converts, each with its cell count
Conversions ==
    {<<PLOT_WIDTH, grid_w>>, <<PLOT_DEPTH, grid_h>>,
     <<left_setback, left_c>>, <<right_setback, right_c>>,
     <<front_setback, front_c>>, <<rear_setback, rear_c>>}

\* C1: every room of the layout lies inside the buildable region:
\* 0 <= x, x + w <= build_w, 0 <= y, y + h <= build_h.
C1_InBounds ==
    \A i \in 1..Len(layout) :
        /\ 0 <= layout[i].x /\ layout[i].x + layout[i].w <= build_w
        /\ 0 <= layout[i].y /\ layout[i].y + layout[i].h <= build_h

\* C2: a room considered by the loop whose width in cells exceeds build_w
\* is named in a warning and is not in the layout.
C2_OversizedDropped ==
    pc \in {"pack", "done"} =>
        \A i \in 1..(next_room - 1) :
            WidthCells(rooms[i]) > build_w =>
                /\ rooms[i].name \in Range(warnings)
                /\ rooms[i].name \notin Names(layout)

\* C3: at every point of the run no two distinct rooms of the layout
\* overlap, shelf wraps and drops included.
C3_NoOverlap ==
    \A i, j \in 1..Len(layout) :
        i # j => ~Overlap(layout[i], layout[j])

\* a run that wrapped to a second shelf, dropped a room and placed a
\* room after the drop
C3_Witness ==
    /\ pc = "done"
    /\ Len(layout) >= 3
    /\ \E i \in 1..Len(layout) : layout[i].y > 0
    /\ \E i \in 1..Len(layout) : \E k \in 1..Len(warnings) :
          \E a, b \in 1..Len(rooms) :
              /\ a < b
              /\ rooms[a].name = warnings[k]
              /\ rooms[b].name = layout[i].name

\* C4: when the opposing setbacks on an axis sum to at least the plot
\* dimension (in metres), the run ends with the infeasible-site error:
\* it never packs, and leaves no layout, no warnings and no coverage.
C4_SetbackSumInfeasible ==
    (left_setback + right_setback >= PLOT_WIDTH
     \/ front_setback + rear_setback >= PLOT_DEPTH) =>
        /\ pc \in {"form", "start", "check", "error"}
        /\ layout = <<>> /\ warnings = <<>> /\ coverage = Unset

\* C5: the coverage reported never exceeds 100%: built area <= plot area.
C5_CoverageAtMost100 ==
    coverage # Unset => coverage[1] <= coverage[2]

ReferenceScenario ==
    /\ PLOT_WIDTH = 14000 /\ PLOT_DEPTH = 24000
    /\ front_setback = 4500 /\ rear_setback = 3000
    /\ left_setback = 2000 /\ right_setback = 2000
    /\ grid_snap_cm = 50
    /\ car_w = 3200 /\ car_d = 5500
    /\ lounge_area = 200 /\ bedroom_area = 120
    /\ bedrooms_count = 3 /\ bath_area = 40

PlacementOrder == [i \in 1..Len(layout) |-> layout[i].name]

\* C6 as stated: in the reference scenario the region is 20 x 33 cells and
\* the rooms are placed Lounge, Bedroom 1..3, Car Porch, Bath, no warning.
C6_OrderAsStated ==
    (ReferenceScenario /\ pc = "done") =>
        /\ build_w = 20 /\ build_h = 33
        /\ PlacementOrder = <<"Lounge", "Bedroom 1", "Bedroom 2",
                              "Bedroom 3", "Car Porch", "Bath">>
        /\ warnings = <<>>

\* C6 amended: in the reference scenario the region is 20 x 33 cells and
\* the rooms are placed Lounge, Car Porch (17.6 m^2, larger than a 12 m^2
\* bedroom), Bedroom 1..3, Bath, with no warning.
C6_ReferenceOrder ==
    (ReferenceScenario /\ pc = "done") =>
        /\ build_w = 20 /\ build_h = 33
        /\ PlacementOrder = <<"Lounge", "Car Porch", "Bedroom 1",
                              "Bedroom 2", "Bedroom 3", "Bath">>
        /\ warnings = <<>>

C6_Witness == ReferenceScenario /\ pc = "done" /\ Len(layout) = 6

C9_BuiltAreaMonotone ==
    [][pc = "pack" =>
          /\ BuiltArea(layout', cell_m) >= BuiltArea(layout, cell_m)
          /\ Len(layout') >= Len(layout)
          /\ SubSeq(layout', 1, Len(layout)) = layout
          /\ layout' # layout =>
                BuiltArea(layout', cell_m) > BuiltArea(layout, cell_m)
          /\ warnings' # warnings => layout' = layout]_vars

\* a run with a drop followed by a placement
C9_Witness ==
    /\ pc = "pack"
    /\ Len(warnings) >= 1
    /\ Len(layout) >= 2
    /\ \E a, b \in 1..Len(rooms) :
          /\ a < b
          /\ rooms[a].name = warnings[1]
          /\ rooms[b].name = layout[Len(layout)].name

Partitioned ==
    /\ next_room = Len(rooms) + 1
    /\ Len(rooms) = bedrooms_count + 3
    /\ Len(layout) + Len(warnings) = Len(rooms)
    /\ Names(layout) \cap Range(warnings) = {}
    /\ Names(layout) \cup Range(warnings) = Names(rooms)

\* C10: on a feasible site the packing loop terminates, and when it has,
\* every requested room was considered and is either in the layout or
\* named in a warning, never both: |layout| + |warnings| = |rooms|.
C10_TerminatesPartitioned ==
    /\ (pc = "pack") ~> (pc = "done")
    /\ [](pc = "done" => Partitioned)

\* a finished run in which a room was dropped before the last room
C10_Witness ==
    /\ pc = "done"
    /\ Len(warnings) >= 1
    /\ Len(layout) >= 1
    /\ warnings[1] # rooms[Len(rooms)].name

====
